---- MODULE Spec2Model ----
(***************************************************************************)
(* The storage-backed binary heap of runtime/src/heap.rs:                  *)
(* Heap<T, C, S> with a pluggable comparator C and a backing store S       *)
(* holding the whole Vec<T>.  Indices are 0-based as in the source; the    *)
(* operators At and swap translate them to TLA+'s 1-based sequences.       *)
(***************************************************************************)
EXTENDS Integers, Sequences, FiniteSets, Bags, TLC

VARIABLES
    C,       \* the comparator the heap is instantiated with (type parameter C)
    S,       \* the persisted Vec<T> of the backing store (type parameter S)
    io,      \* the backing-store accesses made by the last public operation
    last,    \* the last public operation: name, argument, result, store before
    phase,   \* "free", or the position in the push-then-pop scenario
    input,   \* scenario: the items pushed so far, in push order
    output,  \* scenario: the results of the pops so far, in pop order
    unit,    \* a routine of the heap called on its own, as the unit tests do
    now,               \* timestamp::Now, the time of the current block
    SampleTimestamps,  \* mtp: the timestamps of the last blocks
    MedianTimePast,    \* mtp: the median of SampleTimestamps
    KittyStorage,      \* kitties: the storage items of decl_storage
    panicked           \* kitties: a call of the module has panicked

\* the variables of the heap and of its scenarios
heapVars == <<C, S, io, last, phase, input, output>>

\* the variables of the median-time-past module
mtpVars == <<now, SampleTimestamps, MedianTimePast>>

\* the variables of the kitties module
kittyVars == <<KittyStorage, panicked>>

vars == <<C, S, io, last, phase, input, output, unit,
          now, SampleTimestamps, MedianTimePast, KittyStorage, panicked>>

----------------------------------------------------------------------------
(* Bounds of the model *)

\* the longest persisted sequence
MaxLen == 5
\* the items' ordering keys range up to MaxVal
MaxVal == 2
\* the block timestamps range over 0..MaxTime
MaxTime == 1
\* the times of a lifetime handed to life_stage range over 0..MaxStage
MaxStage == 4
\* the kitties ever minted: create_kitty and breed_kitty stop at this Nonce
MaxKitties == 2
\* the timestamps of a chain whose clock never goes back: 0..MaxClock
MaxClock == 3
\* the longest argument of push_vec
MaxVec == 2

----------------------------------------------------------------------------
(* Values *)

\* Option<T>: None is the empty sequence, Some(x) the one-element sequence
None == <<>>
Some(x) == <<x>>

\* kitty ids; T::Hash::default() is DefaultHash
DefaultHash == 0
Hashes == {DefaultHash, 1}

\* a kitty's end_time lies after its birth (generate_lifetime), so it is positive
Lifespan == [kitty_id : Hashes, end_time : 1..MaxVal]

Comparators == {"TestCompare", "EndTimeCompare"}

\* the element type T each comparator is used with
Items == IF C = "TestCompare" THEN 0..MaxVal ELSE Lifespan

\* the thresholds handed to pop_vec
Stakes ==
    IF C = "TestCompare" THEN (0 - 1)..(MaxVal + 1)
    ELSE [kitty_id : {DefaultHash}, end_time : 0..(MaxVal + 1)]

\* C::closer_than(x, y)
closer_than(x, y) ==
    IF C = "TestCompare" THEN x > y ELSE x.end_time < y.end_time

----------------------------------------------------------------------------
(* Vec and slice primitives, 0-based *)

At(store, i) == store[i + 1]

swap(store, a, b) ==
    [store EXCEPT ![a + 1] = store[b + 1], ![b + 1] = store[a + 1]]

\* Vec::pop on a non-empty vector: the vector without its last element
DropLast(store) == SubSeq(store, 1, Len(store) - 1)

----------------------------------------------------------------------------
(* Index arithmetic *)

\* parent_idx with the arithmetic of a tree whose root is at index 1
parent_idx_one_based(child) ==
    IF child = 0 THEN None ELSE Some(child \div 2)

parent_idx(child) ==
    IF child = 0 THEN None
    ELSE IF child \in 1..2 THEN Some(0)
    ELSE IF child % 2 = 1 THEN Some((child - 1) \div 2)
    ELSE Some((child - 2) \div 2)

left_idx(store, parent) ==
    LET left == parent * 2 + 1
    IN  IF left < Len(store) THEN Some(left) ELSE None

right_idx(store, parent) ==
    LET right == parent * 2 + 2
    IN  IF right < Len(store) THEN Some(right) ELSE None

----------------------------------------------------------------------------
(* Restoration routines.  They work on m = [store, cmps]: the in-memory    *)
(* vector and the number of comparator calls made so far.                  *)

Mem(store) == [store |-> store, cmps |-> 0]

Compared(m) == [m EXCEPT !.cmps = @ + 1]

\* shift_up that copies the element over its parent instead of swapping
RECURSIVE shift_up_overwrite(_, _)
shift_up_overwrite(m, idx) ==
    LET p == parent_idx(idx)
    IN  IF p = None THEN m
        ELSE LET par == p[1]
                 m1 == Compared(m)
             IN  IF closer_than(At(m.store, idx), At(m.store, par))
                 THEN shift_up_overwrite(
                          [m1 EXCEPT !.store =
                              [m.store EXCEPT ![par + 1] = m.store[idx + 1]]],
                          par)
                 ELSE m1

\* shift_up that swaps with the parent once and does not continue
shift_up_once(m, idx) ==
    LET p == parent_idx(idx)
    IN  IF p = None THEN m
        ELSE LET par == p[1]
                 m1 == Compared(m)
             IN  IF closer_than(At(m.store, idx), At(m.store, par))
                 THEN [m1 EXCEPT !.store = swap(m.store, idx, par)]
                 ELSE m1

RECURSIVE shift_up(_, _)
shift_up(m, idx) ==
    LET p == parent_idx(idx)
    IN  IF p = None THEN m
        ELSE LET par == p[1]
                 m1 == Compared(m)
             IN  IF closer_than(At(m.store, idx), At(m.store, par))
                 THEN shift_up([m1 EXCEPT !.store = swap(m.store, idx, par)], par)
                 ELSE m1

\* shift_down that compares the node with its left child whenever there is one
RECURSIVE shift_down_left(_, _)
shift_down_left(m, idx) ==
    LET l == left_idx(m.store, idx)
    IN  IF l = None THEN m
        ELSE LET left == l[1]
                 m1 == Compared(m)
             IN  IF closer_than(At(m.store, left), At(m.store, idx))
                 THEN shift_down_left(
                          [m1 EXCEPT !.store = swap(m.store, idx, left)], left)
                 ELSE m1

RECURSIVE shift_down(_, _)
shift_down(m, idx) ==
    LET l == left_idx(m.store, idx)
        r == right_idx(m.store, idx)
    IN  IF l = None THEN m
        ELSE IF r = None
        THEN LET left == l[1]
                 m1 == Compared(m)
             IN  IF closer_than(At(m.store, left), At(m.store, idx))
                 THEN shift_down([m1 EXCEPT !.store = swap(m.store, idx, left)], left)
                 ELSE m1
        ELSE LET left == l[1]
                 right == r[1]
                 closer == IF closer_than(At(m.store, left), At(m.store, right))
                           THEN left ELSE right
                 m2 == Compared(Compared(m))
             IN  IF closer_than(At(m.store, closer), At(m.store, idx))
                 THEN shift_down([m2 EXCEPT !.store = swap(m.store, idx, closer)], closer)
                 ELSE m2

----------------------------------------------------------------------------
(* The in-memory heap operations *)

\* push_into_store that keeps the store free of duplicates
push_into_store_dedup(m, item) ==
    IF \E i \in DOMAIN m.store : m.store[i] = item THEN m
    ELSE LET pushed == [m EXCEPT !.store = Append(m.store, item)]
         IN  shift_up(pushed, Len(pushed.store) - 1)

push_into_store(m, item) ==
    LET pushed == [m EXCEPT !.store = Append(m.store, item)]
        lastIdx == Len(pushed.store) - 1
    IN  shift_up(pushed, lastIdx)

\* pop_from_store that does not restore the heap after moving the tail up
pop_from_store_no_sift(m) ==
    IF Len(m.store) = 0
    THEN [store |-> m.store, cmps |-> m.cmps, top |-> None]
    ELSE LET lastIdx == Len(m.store) - 1
             swapped == swap(m.store, 0, lastIdx)
         IN  [store |-> DropLast(swapped), cmps |-> m.cmps,
              top |-> Some(At(swapped, lastIdx))]

\* pop_from_store that forgets the swap and returns the tail element
pop_from_store_tail(m) ==
    IF Len(m.store) = 0
    THEN [store |-> m.store, cmps |-> m.cmps, top |-> None]
    ELSE IF Len(m.store) = 1
    THEN [store |-> DropLast(m.store), cmps |-> m.cmps,
          top |-> Some(At(m.store, 0))]
    ELSE LET lastIdx == Len(m.store) - 1
             down == shift_down([m EXCEPT !.store = DropLast(m.store)], 0)
         IN  [store |-> down.store, cmps |-> down.cmps,
              top |-> Some(At(m.store, lastIdx))]

\* returns [store, cmps, top]
pop_from_store(m) ==
    IF Len(m.store) = 0
    THEN [store |-> m.store, cmps |-> m.cmps, top |-> None]
    ELSE IF Len(m.store) = 1
    THEN [store |-> DropLast(m.store), cmps |-> m.cmps,
          top |-> Some(At(m.store, 0))]
    ELSE LET lastIdx == Len(m.store) - 1
             swapped == swap(m.store, 0, lastIdx)
             top == Some(At(swapped, lastIdx))
             down == shift_down([m EXCEPT !.store = DropLast(swapped)], 0)
         IN  [store |-> down.store, cmps |-> down.cmps, top |-> top]

\* pop_by_stake with one deviation, named by mode:
\*   "once"      the recursion is left out
\*   "inclusive" the test also passes a root that ties with the threshold
\*   "reversed"  the popped element is collected behind the later ones
\*   "flipped"   the comparator's arguments are exchanged
\*   "eager"     a comparison is made before the store is found empty
RECURSIVE pop_by_stake_variant(_, _, _)
pop_by_stake_variant(m, stack, mode) ==
    IF Len(m.store) = 0
    THEN [store |-> m.store,
          cmps |-> IF mode = "eager" THEN m.cmps + 1 ELSE m.cmps,
          vec |-> <<>>]
    ELSE LET peek_top == At(m.store, 0)
             m1 == Compared(m)
             test == CASE mode = "inclusive" -> ~closer_than(stack, peek_top)
                       [] mode = "flipped" -> closer_than(stack, peek_top)
                       [] OTHER -> closer_than(peek_top, stack)
         IN  IF test
             THEN LET p == pop_from_store(m1)
                      rest == IF mode = "once"
                              THEN [store |-> p.store, cmps |-> p.cmps,
                                    vec |-> <<>>]
                              ELSE pop_by_stake_variant(
                                       [store |-> p.store, cmps |-> p.cmps],
                                       stack, mode)
                  IN  [store |-> rest.store, cmps |-> rest.cmps,
                       vec |-> IF mode = "reversed"
                               THEN Append(rest.vec, p.top[1])
                               ELSE <<p.top[1]>> \o rest.vec]
             ELSE [store |-> m1.store, cmps |-> m1.cmps, vec |-> <<>>]

pop_by_stake_once(m, stack) == pop_by_stake_variant(m, stack, "once")

pop_by_stake_inclusive(m, stack) == pop_by_stake_variant(m, stack, "inclusive")

pop_by_stake_reversed(m, stack) == pop_by_stake_variant(m, stack, "reversed")

pop_by_stake_flipped(m, stack) == pop_by_stake_variant(m, stack, "flipped")

pop_by_stake_eager(m, stack) == pop_by_stake_variant(m, stack, "eager")

\* returns [store, cmps, vec]
RECURSIVE pop_by_stake(_, _)
pop_by_stake(m, stack) ==
    IF Len(m.store) = 0
    THEN [store |-> m.store, cmps |-> m.cmps, vec |-> <<>>]
    ELSE LET peek_top == At(m.store, 0)
             m1 == Compared(m)
         IN  IF closer_than(peek_top, stack)
             THEN LET p == pop_from_store(m1)
                  IN  IF p.top = None
                      THEN [store |-> p.store, cmps |-> p.cmps, vec |-> <<>>]
                      ELSE LET rest == pop_by_stake(
                                   [store |-> p.store, cmps |-> p.cmps], stack)
                           IN  [store |-> rest.store, cmps |-> rest.cmps,
                                vec |-> <<p.top[1]>> \o rest.vec]
             ELSE [store |-> m1.store, cmps |-> m1.cmps, vec |-> <<>>]

\* push_vec's loop as a bulk load: append every item, sift up the last only
push_items_bulk(m, items) ==
    IF items = <<>> THEN m
    ELSE LET all == [m EXCEPT !.store = m.store \o items]
         IN  shift_up(all, Len(all.store) - 1)

\* the loop of push_vec: push_into_store of each item, in order
RECURSIVE push_items(_, _)
push_items(m, items) ==
    IF items = <<>> THEN m
    ELSE push_items(push_into_store(m, Head(items)), Tail(items))

----------------------------------------------------------------------------
(* The backing store: w = [S, io] is the persisted value and the log of    *)
(* accesses.                                                               *)

World(s) == [S |-> s, io |-> <<>>]

\* S::get(): the value read, and the world after the read
S_get(w) == [val |-> w.S, w |-> [w EXCEPT !.io = Append(@, "get")]]

\* S::put(store)
S_put(w, store) == [S |-> store, io |-> Append(w.io, "put")]

----------------------------------------------------------------------------
(* The public operations: each returns [w, ret, cmps] *)

push(w, item) ==
    LET g == S_get(w)
        m == push_into_store(Mem(g.val), item)
    IN  [w |-> S_put(g.w, m.store), ret |-> <<>>, cmps |-> m.cmps]

\* push_vec as one full push (its own get and put) per item
RECURSIVE push_vec_each(_, _)
push_vec_each(w, items) ==
    IF items = <<>> THEN [w |-> w, ret |-> <<>>, cmps |-> 0]
    ELSE LET one == push(w, Head(items))
             rest == push_vec_each(one.w, Tail(items))
         IN  [w |-> rest.w, ret |-> <<>>, cmps |-> one.cmps + rest.cmps]

push_vec(w, items) ==
    LET g == S_get(w)
        m == push_items(Mem(g.val), items)
    IN  [w |-> S_put(g.w, m.store), ret |-> <<>>, cmps |-> m.cmps]

pop(w) ==
    LET g == S_get(w)
        p == pop_from_store(Mem(g.val))
    IN  [w |-> S_put(g.w, p.store), ret |-> p.top, cmps |-> p.cmps]

pop_vec(w, stake) ==
    LET g == S_get(w)
        p == pop_by_stake(Mem(g.val), stake)
    IN  [w |-> S_put(g.w, p.store), ret |-> p.vec, cmps |-> p.cmps]

----------------------------------------------------------------------------
(* Actions *)

\* the effect of a completed public operation on the heap's variables
Done(name, arg, r) ==
    /\ S' = r.w.S
    /\ io' = r.w.io
    /\ last' = [op |-> name, arg |-> arg, ret |-> r.ret, pre |-> S,
                cmps |-> r.cmps]
    /\ C' = C
    /\ UNCHANGED <<unit, mtpVars, kittyVars>>

\* sequences over set A of length at most n
RECURSIVE SeqsUpTo(_, _)
SeqsUpTo(A, n) ==
    IF n = 0 THEN {<<>>}
    ELSE LET shorter == SeqsUpTo(A, n - 1)
         IN  shorter \cup {Append(s, a) : s \in shorter, a \in A}

PushOp(item) ==
    /\ Len(S) < MaxLen
    /\ Done("push", item, push(World(S), item))

PushVecOp(items) ==
    /\ Len(S) + Len(items) <= MaxLen
    /\ Done("push_vec", items, push_vec(World(S), items))

PopOp == Done("pop", <<>>, pop(World(S)))

PopVecOp(stake) == Done("pop_vec", stake, pop_vec(World(S), stake))

\* The caller of the heap is idle (last.op = "none") or holds the result of
\* the operation it called; operations are called one at a time.
Idle == last.op = "none"

NoCall == [op |-> "none", arg |-> <<>>, ret |-> <<>>, pre |-> <<>>, cmps |-> 0]

Push ==
    /\ phase = "free" /\ Idle
    /\ \E item \in Items : PushOp(item)
    /\ UNCHANGED <<phase, input, output>>

PushVec ==
    /\ phase = "free" /\ Idle
    /\ \E items \in SeqsUpTo(Items, MaxVec) : PushVecOp(items)
    /\ UNCHANGED <<phase, input, output>>

Pop ==
    /\ phase = "free" /\ Idle
    /\ PopOp
    /\ UNCHANGED <<phase, input, output>>

PopVec ==
    /\ phase = "free" /\ Idle
    /\ \E stake \in Stakes : PopVecOp(stake)
    /\ UNCHANGED <<phase, input, output>>

\* the caller has used the result and is ready for its next call
Return ==
    /\ phase = "free" /\ ~Idle
    /\ last' = NoCall
    /\ UNCHANGED <<C, S, io, phase, input, output, unit, mtpVars, kittyVars>>

\* the scenario of tests::pop_test: pushes onto the empty heap, then pops
\* until one pop more than there were pushes
SortPush ==
    /\ phase = "push"
    /\ \E item \in Items :
          /\ PushOp(item)
          /\ input' = Append(input, item)
    /\ UNCHANGED <<phase, output>>

SortPop ==
    /\ phase \in {"push", "pop"}
    /\ Len(output) <= Len(input)
    /\ PopOp
    /\ phase' = "pop"
    /\ output' = Append(output, last'.ret)
    /\ UNCHANGED input

\* no routine is being called on its own
NoUnit == [fn |-> "none"]

\* the storage of the kitties module before the first call: no map has an
\* entry, the counters are zero and LifespanArray is empty
EmptyStorage ==
    [Kitties |-> <<>>, KittyOwner |-> <<>>,
     AllKittiesArray |-> <<>>, AllKittiesCount |-> 0, AllKittiesIndex |-> <<>>,
     OwnedKittiesArray |-> <<>>, OwnedKittiesCount |-> <<>>,
     OwnedKittiesIndex |-> <<>>,
     LifespanArray |-> <<>>, Nonce |-> 0]

HeapInit ==
    /\ C \in Comparators
    /\ S = <<>>
    /\ io = <<>>
    /\ last = NoCall
    /\ input = <<>>
    /\ output = <<>>
    /\ unit = NoUnit
    /\ now = 0
    /\ SampleTimestamps = <<>>
    /\ MedianTimePast = 0
    /\ KittyStorage = EmptyStorage
    /\ panicked = FALSE

Init == HeapInit /\ phase = "free"

Next == Push \/ PushVec \/ Pop \/ PopVec \/ Return

Spec == Init /\ [][Next]_vars

SortInit == HeapInit /\ phase = "push"

SortNext == SortPush \/ SortPop

SortSpec == SortInit /\ [][SortNext]_vars

----------------------------------------------------------------------------
(* The heap of the tests: MaxHeap = Heap<i32, TestCompare, HeapStore> with *)
(* the values and thresholds that push_test, pop_test and pop_vec_test use *)

TestItems == {10, 20, 30, 40, 50}

TestStakes == {0, 1, 5, 10, 35}

TestPush ==
    /\ phase = "test" /\ Idle
    /\ \E item \in TestItems : PushOp(item)
    /\ UNCHANGED <<phase, input, output>>

TestPop ==
    /\ phase = "test" /\ Idle
    /\ PopOp
    /\ UNCHANGED <<phase, input, output>>

TestPopVec ==
    /\ phase = "test" /\ Idle
    /\ \E stake \in TestStakes : PopVecOp(stake)
    /\ UNCHANGED <<phase, input, output>>

\* the test goes on to its next call
TestReturn ==
    /\ phase = "test" /\ ~Idle
    /\ last' = NoCall
    /\ UNCHANGED <<C, S, io, phase, input, output, unit, mtpVars, kittyVars>>

TestInit == HeapInit /\ C = "TestCompare" /\ phase = "test"

TestNext == TestPush \/ TestPop \/ TestPopVec \/ TestReturn

TestSpec == TestInit /\ [][TestNext]_vars

----------------------------------------------------------------------------
(* The recursive routines, one call of the recursion per step, under an    *)
(* arbitrary comparator: every closer_than call may answer either way, so  *)
(* the steps cover every comparator, the invalid ones too.  unit holds the *)
(* routine called (fn), the routine now running (pc), the slice, the index *)
(* argument, the length at the call (n0) and the elements popped so far.   *)

\* a slice of n elements, told apart by their first position
Labelled(n) == [i \in 1..n |-> i]

\* a routine is called on a slice, as tests::shift_up_test and
\* tests::shift_down_test do; pop_by_stake as pop_vec does
StepCall ==
    /\ unit.fn = "none"
    /\ \E n \in 0..MaxLen :
          \/ /\ n >= 1
             /\ \E i \in 0..(n - 1), f \in {"shift_up", "shift_down"} :
                   unit' = [fn |-> f, pc |-> f, store |-> Labelled(n),
                            idx |-> i, n0 |-> n, pops |-> 0]
          \/ unit' = [fn |-> "pop_by_stake", pc |-> "pop_by_stake",
                      store |-> Labelled(n), idx |-> 0, n0 |-> n, pops |-> 0]
    /\ UNCHANGED <<heapVars, mtpVars, kittyVars>>

\* where a finished shift_down returns to: pop_from_store, whose caller
\* pop_by_stake then makes its recursive call
AfterShiftDown == IF unit.fn = "pop_by_stake" THEN "pop_by_stake" ELSE "done"

\* one call of shift_up
ShiftUpStep ==
    /\ unit.fn # "none" /\ unit.pc = "shift_up"
    /\ LET p == parent_idx(unit.idx)
       IN  IF p = None
           THEN unit' = [unit EXCEPT !.pc = "done"]
           ELSE \E closer \in BOOLEAN :
                   unit' = IF closer
                           THEN [unit EXCEPT
                                    !.store = swap(unit.store, unit.idx, p[1]),
                                    !.idx = p[1]]
                           ELSE [unit EXCEPT !.pc = "done"]
    /\ UNCHANGED <<heapVars, mtpVars, kittyVars>>

\* one call of shift_down that recurses from the index it was given
ShiftDownStepSameIdx ==
    /\ unit.fn # "none" /\ unit.pc = "shift_down"
    /\ LET l == left_idx(unit.store, unit.idx)
           r == right_idx(unit.store, unit.idx)
       IN  IF l = None
           THEN unit' = [unit EXCEPT !.pc = AfterShiftDown]
           ELSE \E leftCloser, childCloser \in BOOLEAN :
                   LET closer == IF r = None \/ leftCloser THEN l[1] ELSE r[1]
                   IN  unit' = IF childCloser
                               THEN [unit EXCEPT
                                        !.store = swap(unit.store, unit.idx, closer)]
                               ELSE [unit EXCEPT !.pc = AfterShiftDown]
    /\ UNCHANGED <<heapVars, mtpVars, kittyVars>>

\* one call of shift_down
ShiftDownStep ==
    /\ unit.fn # "none" /\ unit.pc = "shift_down"
    /\ LET l == left_idx(unit.store, unit.idx)
           r == right_idx(unit.store, unit.idx)
       IN  IF l = None
           THEN unit' = [unit EXCEPT !.pc = AfterShiftDown]
           ELSE \E leftCloser, childCloser \in BOOLEAN :
                   LET closer == IF r = None \/ leftCloser THEN l[1] ELSE r[1]
                   IN  unit' = IF childCloser
                               THEN [unit EXCEPT
                                        !.store = swap(unit.store, unit.idx, closer),
                                        !.idx = closer]
                               ELSE [unit EXCEPT !.pc = AfterShiftDown]
    /\ UNCHANGED <<heapVars, mtpVars, kittyVars>>

\* one call of pop_by_stake, up to the shift_down of its pop_from_store
PopByStakeStep ==
    /\ unit.fn # "none" /\ unit.pc = "pop_by_stake"
    /\ IF Len(unit.store) = 0
       THEN unit' = [unit EXCEPT !.pc = "done"]
       ELSE \E closer \in BOOLEAN :
               unit' =
                   IF ~closer THEN [unit EXCEPT !.pc = "done"]
                   ELSE IF Len(unit.store) = 1
                   THEN [unit EXCEPT !.store = DropLast(unit.store),
                                     !.pops = @ + 1]
                   ELSE [unit EXCEPT
                            !.store = DropLast(
                                swap(unit.store, 0, Len(unit.store) - 1)),
                            !.pops = @ + 1,
                            !.idx = 0,
                            !.pc = "shift_down"]
    /\ UNCHANGED <<heapVars, mtpVars, kittyVars>>

StepInit == HeapInit /\ phase = "free"

StepNext == StepCall \/ ShiftUpStep \/ ShiftDownStep \/ PopByStakeStep

\* a routine that was called runs to its end: the execution is synchronous
StepSpec == StepInit /\ [][StepNext]_vars /\ WF_vars(StepNext)

----------------------------------------------------------------------------
(* The routines called on their own with given arguments, as the unit      *)
(* tests parent_idx_test, left_idx_test, right_idx_test and                *)
(* shift_down_test do.  unit holds the arguments and what was returned.    *)

\* the largest index and length the index functions are called with
MaxIdx == 12

\* Option<usize> -> Option<usize>: parent_idx of the index, if there is one
ParentOf(child) == IF child = None THEN None ELSE parent_idx(child[1])

\* parent_idx(i), left_idx(store, i) and right_idx(store, i) on a store of
\* len elements, and parent_idx of the children found
UnitIdx ==
    /\ unit.fn = "none"
    /\ \E len \in 0..MaxIdx, i \in 0..MaxIdx :
          LET store == [k \in 1..len |-> 0]
          IN  unit' = [fn |-> "idx", len |-> len, i |-> i,
                       parent |-> parent_idx(i),
                       left |-> left_idx(store, i),
                       right |-> right_idx(store, i),
                       parentOfLeft |-> ParentOf(left_idx(store, i)),
                       parentOfRight |-> ParentOf(right_idx(store, i))]
    /\ UNCHANGED <<heapVars, mtpVars, kittyVars>>

\* shift_down(store, idx) on any slice and any start index up to its
\* length; tests::shift_down_test and pop_from_store start at index 0
UnitShiftDown ==
    /\ unit.fn = "none"
    /\ \E store \in SeqsUpTo(Items, MaxLen) :
          \E idx \in 0..Len(store) :
              unit' = [fn |-> "shift_down", store |-> store, idx |-> idx,
                       out |-> shift_down(Mem(store), idx)]
    /\ UNCHANGED <<heapVars, mtpVars, kittyVars>>

\* the test goes on to its next call
UnitReturn ==
    /\ unit.fn # "none"
    /\ unit' = NoUnit
    /\ UNCHANGED <<heapVars, mtpVars, kittyVars>>

UnitInit == HeapInit /\ phase = "free"

UnitNext == UnitIdx \/ UnitShiftDown \/ UnitReturn

UnitSpec == UnitInit /\ [][UnitNext]_vars

----------------------------------------------------------------------------
(* The median-time-past module of runtime/src/mtp.rs: at the end of every  *)
(* block it records the block's timestamp and stores the median of the     *)
(* last MAX_TIMESTAMP_SAMPLES timestamps.                                  *)

MAX_TIMESTAMP_SAMPLES == 11

\* T::Moment, the values the timestamp module hands out
Moments == 0..MaxTime

\* x put into the ascending sequence s, after the entries equal to it
RECURSIVE SortedInsert(_, _)
SortedInsert(x, s) ==
    IF s = <<>> THEN <<x>>
    ELSE IF x < Head(s) THEN <<x>> \o s
         ELSE <<Head(s)>> \o SortedInsert(x, Tail(s))

\* samples.sort(): the ascending stable sort of the vector
RECURSIVE sort(_)
sort(s) ==
    IF s = <<>> THEN <<>>
    ELSE SortedInsert(s[Len(s)], sort(DropLast(s)))

\* calculate_mtp that drops the newest sample instead of the oldest
calculate_mtp_pop_back(samples0, time) ==
    LET samples == IF Len(samples0) = MAX_TIMESTAMP_SAMPLES
                   THEN Append(DropLast(samples0), time)
                   ELSE [i \in 1..MAX_TIMESTAMP_SAMPLES |-> time]
    IN  [SampleTimestamps |-> samples,
         MedianTimePast |-> At(sort(samples), MAX_TIMESTAMP_SAMPLES \div 2)]

\* calculate_mtp that takes the middle sample without sorting
calculate_mtp_unsorted(samples0, time) ==
    LET samples == IF Len(samples0) = MAX_TIMESTAMP_SAMPLES
                   THEN Append(Tail(samples0), time)
                   ELSE [i \in 1..MAX_TIMESTAMP_SAMPLES |-> time]
    IN  [SampleTimestamps |-> samples,
         MedianTimePast |-> At(samples, MAX_TIMESTAMP_SAMPLES \div 2)]

\* calculate_mtp(time) on the stored samples0: what it puts into the two
\* storage values
calculate_mtp(samples0, time) ==
    LET samples == IF Len(samples0) = MAX_TIMESTAMP_SAMPLES
                   THEN Append(Tail(samples0), time)
                   ELSE [i \in 1..MAX_TIMESTAMP_SAMPLES |-> time]
    IN  [SampleTimestamps |-> samples,
         MedianTimePast |-> At(sort(samples), MAX_TIMESTAMP_SAMPLES \div 2)]

\* on_finalize of a block whose timestamp is time
MtpOnFinalize ==
    \E time \in Moments :
        LET put == calculate_mtp(SampleTimestamps, time)
        IN  /\ now' = time
            /\ SampleTimestamps' = put.SampleTimestamps
            /\ MedianTimePast' = put.MedianTimePast
            /\ UNCHANGED <<heapVars, unit, kittyVars>>

MtpInit == HeapInit /\ C = "EndTimeCompare" /\ phase = "free"

MtpNext == MtpOnFinalize

MtpSpec == MtpInit /\ [][MtpNext]_vars

\* on_finalize of a block with any timestamp, also one before the last
ClockOnFinalizeAnyTime ==
    \E time \in 0..MaxClock :
        LET put == calculate_mtp(SampleTimestamps, time)
        IN  /\ now' = time
            /\ SampleTimestamps' = put.SampleTimestamps
            /\ MedianTimePast' = put.MedianTimePast
            /\ UNCHANGED <<heapVars, unit, kittyVars>>

\* on_finalize of the blocks of a chain: the timestamp of a block is not
\* before the timestamp of the block before it
ClockOnFinalize ==
    \E time \in 0..MaxClock :
        /\ time >= now
        /\ LET put == calculate_mtp(SampleTimestamps, time)
           IN  /\ now' = time
               /\ SampleTimestamps' = put.SampleTimestamps
               /\ MedianTimePast' = put.MedianTimePast
               /\ UNCHANGED <<heapVars, unit, kittyVars>>

ClockInit == HeapInit /\ C = "EndTimeCompare" /\ phase = "free"

ClockNext == ClockOnFinalize

ClockSpec == ClockInit /\ [][ClockNext]_vars

----------------------------------------------------------------------------
(* The kitties module of runtime/src/kitties.rs: the life of a kitty.      *)
(* A hash is modelled by a number: its first three bytes, which are all    *)
(* the module reads of a dna, are the three low base-256 digits, and what  *)
(* tells two hashes with the same three bytes apart is the digits above.   *)
(* H256::default(), all bytes zero, is DefaultHash.  TLC's integers have   *)
(* 32 bits, so u64 is narrowed to 31 bits: U64_MAX is the largest u64 of   *)
(* the model, and the dna bytes are drawn so that no product exceeds it.   *)

ONE_MINUTE == 60000
ONE_DAY == 86400000
BASE_YOUNG_FACTOR == 5
BASE_MATURITY_FACTOR == 10
BASE_OLDNESS_FACTOR == 5

U8_MAX == 255
U64_MAX == 2147483647

\* a hash with the leading bytes b0, b1, b2 and the remaining bytes rest
HashOf(rest, b0, b1, b2) == ((rest * 256 + b0) * 256 + b1) * 256 + b2

\* dna.as_ref()[i] for i in 0..2
HashByte(h, i) == (h \div (256 ^ (2 - i))) % 256

\* Result and the outcome of a panic
Ok(x) == [tag |-> "Ok", val |-> x]
Err == [tag |-> "Err"]
Panic == [tag |-> "Panic"]

\* the build decides what an overflowing a + b of two u8 does: it panics
\* with overflow checks (debug), it wraps without them (release, wasm)
Builds == {"checked", "wrapping"}

\* a + b on u8: None stands for the panic
u8_add(a, b, build) ==
    IF a + b <= U8_MAX THEN Some(a + b)
    ELSE IF build = "checked" THEN None
         ELSE Some((a + b) % (U8_MAX + 1))

\* a.checked_add(b) on u64
checked_add(a, b) == IF b > U64_MAX - a THEN None ELSE Some(a + b)

\* x.saturated_into::<u64>(), and back into the Moment of the runtime (u64)
saturated_into(x) == IF x > U64_MAX THEN U64_MAX ELSE x

\* generate_lifetime with the factors added in u64, after the conversion
generate_lifetime_widened(mtp, dna, build) ==
    LET birth_time == saturated_into(mtp)
        maturity_time ==
            checked_add(birth_time,
                        ONE_MINUTE * (BASE_YOUNG_FACTOR + HashByte(dna, 0)))
    IN  IF maturity_time = None THEN Err
        ELSE LET old_time ==
                     checked_add(maturity_time[1],
                         ONE_DAY * (BASE_MATURITY_FACTOR + HashByte(dna, 1)))
             IN  IF old_time = None THEN Err
                 ELSE LET end_time ==
                              checked_add(old_time[1],
                                  ONE_MINUTE
                                      * (BASE_OLDNESS_FACTOR + HashByte(dna, 2)))
                      IN  IF end_time = None THEN Err
                          ELSE Ok([birth_time |-> mtp,
                                   maturity_time |->
                                       saturated_into(maturity_time[1]),
                                   old_time |-> saturated_into(old_time[1]),
                                   end_time |-> saturated_into(end_time[1])])

\* generate_lifetime(mtp, dna): each factor is a sum of two u8, formed
\* before the conversion to u64
generate_lifetime(mtp, dna, build) ==
    LET birth_time == saturated_into(mtp)
        young == u8_add(BASE_YOUNG_FACTOR, HashByte(dna, 0), build)
    IN  IF young = None THEN Panic
        ELSE
        LET maturity_time == checked_add(birth_time, ONE_MINUTE * young[1])
        IN  IF maturity_time = None THEN Err
            ELSE
            LET mature == u8_add(BASE_MATURITY_FACTOR, HashByte(dna, 1), build)
            IN  IF mature = None THEN Panic
                ELSE
                LET old_time == checked_add(maturity_time[1],
                                            ONE_DAY * mature[1])
                IN  IF old_time = None THEN Err
                    ELSE
                    LET old == u8_add(BASE_OLDNESS_FACTOR, HashByte(dna, 2),
                                      build)
                    IN  IF old = None THEN Panic
                        ELSE
                        LET end_time == checked_add(old_time[1],
                                                    ONE_MINUTE * old[1])
                        IN  IF end_time = None THEN Err
                            ELSE Ok([birth_time |-> mtp,
                                     maturity_time |->
                                         saturated_into(maturity_time[1]),
                                     old_time |->
                                         saturated_into(old_time[1]),
                                     end_time |->
                                         saturated_into(end_time[1])])

\* life_stage whose last stage includes the end time
life_stage_end_inclusive(mtp, lifetime) ==
    IF mtp < lifetime.birth_time THEN "Invalid"
    ELSE IF mtp < lifetime.maturity_time THEN "Young"
    ELSE IF mtp < lifetime.old_time THEN "Maturity"
    ELSE IF mtp <= lifetime.end_time THEN "Oldness"
    ELSE "Invalid"

\* life_stage(mtp, lifetime): a LifeStage
life_stage(mtp, lifetime) ==
    IF mtp < lifetime.birth_time THEN "Invalid"
    ELSE IF mtp < lifetime.maturity_time THEN "Young"
    ELSE IF mtp < lifetime.old_time THEN "Maturity"
    ELSE IF mtp < lifetime.end_time THEN "Oldness"
    ELSE "Invalid"

could_breed(mtp, kitty) == life_stage(mtp, kitty.lifetime) = "Maturity"

could_transfer(mtp, kitty) ==
    LET stage == life_stage(mtp, kitty.lifetime)
    IN  IF stage = "Young" THEN TRUE
        ELSE IF stage = "Maturity" THEN TRUE
        ELSE FALSE

\* Kitty { id, dna, price, gen, lifetime }
NewKitty(id, dna, gen, lifetime) ==
    [id |-> id, dna |-> dna, price |-> 0, gen |-> gen, lifetime |-> lifetime]

----------------------------------------------------------------------------
(* life_stage, could_breed, could_transfer and generate_lifetime called on *)
(* their own, as life_stage_test, life_stage_limit_test and                *)
(* generate_lifetime_test do.                                              *)

\* the lifetimes whose four times are in order
OrderedLifetimes ==
    {l \in [birth_time : 0..MaxStage, maturity_time : 0..MaxStage,
            old_time : 0..MaxStage, end_time : 0..MaxStage] :
        /\ l.birth_time <= l.maturity_time
        /\ l.maturity_time <= l.old_time
        /\ l.old_time <= l.end_time}

\* life_stage, could_breed and could_transfer at one time of one lifetime
UnitLifeStage ==
    /\ unit.fn = "none"
    /\ \E lifetime \in OrderedLifetimes, mtp \in 0..(MaxStage + 1) :
          LET kitty == NewKitty(DefaultHash, DefaultHash, 0, lifetime)
          IN  unit' = [fn |-> "life_stage", mtp |-> mtp,
                       lifetime |-> lifetime,
                       out |-> life_stage(mtp, lifetime),
                       breed |-> could_breed(mtp, kitty),
                       transfer |-> could_transfer(mtp, kitty)]
    /\ UNCHANGED <<heapVars, mtpVars, kittyVars>>

\* the dna bytes of the calls: the least ones, those of the test, and the
\* ones around the largest byte that leaves the sum of a factor within u8
YoungBytes == {0, 2, U8_MAX - BASE_YOUNG_FACTOR, U8_MAX - BASE_YOUNG_FACTOR + 1, U8_MAX}
MaturityBytes == {0, 3, U8_MAX - BASE_MATURITY_FACTOR + 1}
OldnessBytes == {0, 4, U8_MAX - BASE_OLDNESS_FACTOR + 1}

\* the birth times of the calls: the one of the test, and those from which
\* the first, the second or the third addition leaves u64
BirthTimes ==
    {0, 100, U64_MAX - ONE_DAY * BASE_MATURITY_FACTOR - 1,
     U64_MAX - ONE_MINUTE * BASE_YOUNG_FACTOR, U64_MAX}

UnitGenerateLifetime ==
    /\ unit.fn = "none"
    /\ \E mtp \in BirthTimes, b0 \in YoungBytes, b1 \in MaturityBytes,
          b2 \in OldnessBytes, build \in Builds :
          LET dna == HashOf(0, b0, b1, b2)
          IN  unit' = [fn |-> "generate_lifetime", mtp |-> mtp, dna |-> dna,
                       build |-> build,
                       out |-> generate_lifetime(mtp, dna, build)]
    /\ UNCHANGED <<heapVars, mtpVars, kittyVars>>

LifeInit == HeapInit /\ C = "EndTimeCompare" /\ phase = "free"

LifeNext == UnitLifeStage \/ UnitGenerateLifetime \/ UnitReturn

LifeSpec == LifeInit /\ [][LifeNext]_vars

----------------------------------------------------------------------------
(* The kitties module: its storage and its calls.  A storage map is a      *)
(* function on the keys that have an entry; a missing key reads as the     *)
(* default of the value type.  st is the record of all storage items.      *)

map_get(m, k, default) == IF k \in DOMAIN m THEN m[k] ELSE default

map_insert(m, k, v) ==
    [x \in DOMAIN m \cup {k} |-> IF x = k THEN v ELSE m[x]]

map_remove(m, k) == [x \in DOMAIN m \ {k} |-> m[x]]

\* T::AccountId
Accounts == {1, 2}

\* T::Balance: the prices of set_price and buy_kitty
Prices == {0, 1}

\* the default of Kitty
DefaultKitty ==
    NewKitty(DefaultHash, DefaultHash, 0,
             [birth_time |-> 0, maturity_time |-> 0, old_time |-> 0,
              end_time |-> 0])

\* Self::kitty(kitty_id)
kitty(st, kitty_id) == map_get(st.Kitties, kitty_id, DefaultKitty)

\* Self::owner_of(kitty_id)
owner_of(st, kitty_id) ==
    IF kitty_id \in DOMAIN st.KittyOwner THEN Some(st.KittyOwner[kitty_id])
    ELSE None

\* Self::owned_kitty_count(account)
owned_kitty_count(st, account) == map_get(st.OwnedKittiesCount, account, 0)

\* a.checked_sub(b) on u64
checked_sub(a, b) == IF b > a THEN None ELSE Some(a - b)

\* a - b on u64: None stands for the panic of a build with overflow checks
u64_sub(a, b, build) ==
    IF b <= a THEN Some(a - b)
    ELSE IF build = "checked" THEN None
         ELSE Some(U64_MAX - (b - a) + 1)

\* the bytes after the third of a hash
HashRest(h) == h \div (256 ^ 3)

\* (random_seed, sender, nonce).using_encoded(hash): a hash that no other
\* nonce yields, with any of the leading bytes the model draws
random_hash(nonce, bytes) == HashOf(nonce + 1, bytes[1], bytes[2], bytes[3])

\* mint that does not push the lifespan of the kitty onto the heap
mint_no_lifespan(st, to, kitty_id, new_kitty) ==
    IF kitty_id \in DOMAIN st.KittyOwner THEN Err
    ELSE
    LET count == owned_kitty_count(st, to)
        new_owned_kitty_count == checked_add(count, 1)
        all_kitties_count == st.AllKittiesCount
        new_all_kitties_count == checked_add(all_kitties_count, 1)
    IN  IF new_owned_kitty_count = None \/ new_all_kitties_count = None
        THEN Err
        ELSE Ok([st EXCEPT
                 !.Kitties = map_insert(@, kitty_id, new_kitty),
                 !.KittyOwner = map_insert(@, kitty_id, to),
                 !.AllKittiesArray = map_insert(@, all_kitties_count, kitty_id),
                 !.AllKittiesCount = new_all_kitties_count[1],
                 !.AllKittiesIndex = map_insert(@, kitty_id, all_kitties_count),
                 !.OwnedKittiesArray = map_insert(@, <<to, count>>, kitty_id),
                 !.OwnedKittiesCount =
                     map_insert(@, to, new_owned_kitty_count[1]),
                 !.OwnedKittiesIndex = map_insert(@, kitty_id, count)])

\* mint(to, kitty_id, new_kitty)
mint(st, to, kitty_id, new_kitty) ==
    IF kitty_id \in DOMAIN st.KittyOwner THEN Err
    ELSE
    LET count == owned_kitty_count(st, to)
        new_owned_kitty_count == checked_add(count, 1)
        all_kitties_count == st.AllKittiesCount
        new_all_kitties_count == checked_add(all_kitties_count, 1)
    IN  IF new_owned_kitty_count = None \/ new_all_kitties_count = None
        THEN Err
        ELSE Ok([st EXCEPT
                 !.Kitties = map_insert(@, kitty_id, new_kitty),
                 !.KittyOwner = map_insert(@, kitty_id, to),
                 !.AllKittiesArray = map_insert(@, all_kitties_count, kitty_id),
                 !.AllKittiesCount = new_all_kitties_count[1],
                 !.AllKittiesIndex = map_insert(@, kitty_id, all_kitties_count),
                 !.OwnedKittiesArray = map_insert(@, <<to, count>>, kitty_id),
                 !.OwnedKittiesCount =
                     map_insert(@, to, new_owned_kitty_count[1]),
                 !.OwnedKittiesIndex = map_insert(@, kitty_id, count),
                 !.LifespanArray =
                     push(World(@),
                          [kitty_id |-> kitty_id,
                           end_time |-> new_kitty.lifetime.end_time]).w.S])

\* transfer_from(from, to, kitty_id): the storage writes in source order
transfer_from(st, from, to, kitty_id) ==
    LET owner == owner_of(st, kitty_id)
    IN  IF owner = None THEN Err
        ELSE IF owner[1] # from THEN Err
        ELSE
        LET owned_kitty_count_from == owned_kitty_count(st, from)
            owned_kitty_count_to == owned_kitty_count(st, to)
            new_owned_kitty_count_to == checked_add(owned_kitty_count_to, 1)
            new_owned_kitty_count_from ==
                checked_sub(owned_kitty_count_from, 1)
        IN  IF new_owned_kitty_count_to = None THEN Err
            ELSE IF new_owned_kitty_count_from = None THEN Err
            ELSE
            LET new_from == new_owned_kitty_count_from[1]
                new_to == new_owned_kitty_count_to[1]
                kitty_index == map_get(st.OwnedKittiesIndex, kitty_id, 0)
                last_kitty_id ==
                    map_get(st.OwnedKittiesArray, <<from, new_from>>,
                            DefaultHash)
                s1 == IF kitty_index # new_from
                      THEN [st EXCEPT
                            !.OwnedKittiesArray =
                                map_insert(@, <<from, kitty_index>>,
                                           last_kitty_id),
                            !.OwnedKittiesIndex =
                                map_insert(@, last_kitty_id, kitty_index)]
                      ELSE st
                s2 == [s1 EXCEPT
                       !.KittyOwner = map_insert(@, kitty_id, to),
                       !.OwnedKittiesIndex =
                           map_insert(@, kitty_id, owned_kitty_count_to)]
                s3 == [s2 EXCEPT
                       !.OwnedKittiesArray =
                           map_insert(map_remove(@, <<from, new_from>>),
                                      <<to, owned_kitty_count_to>>, kitty_id)]
                s4 == [s3 EXCEPT
                       !.OwnedKittiesCount =
                           map_insert(map_insert(@, from, new_from),
                                      to, new_to)]
            IN  Ok(s4)

\* burn_token(kitty_id): the prints of the error branches do not return
burn_token(st, kitty_id, build) ==
    LET count == st.AllKittiesCount
        last_kitty_index == u64_sub(count, 1, build)
    IN  IF last_kitty_index = None THEN Panic
        ELSE
        LET last_kitty_id ==
                map_get(st.AllKittiesArray, last_kitty_index[1], DefaultHash)
            kitty_index == map_get(st.AllKittiesIndex, kitty_id, 0)
            s1 == [st EXCEPT
                   !.AllKittiesArray =
                       map_remove(map_insert(@, kitty_index, last_kitty_id),
                                  last_kitty_index[1]),
                   !.AllKittiesIndex =
                       map_remove(map_insert(@, last_kitty_id, kitty_index),
                                  kitty_id),
                   !.AllKittiesCount = last_kitty_index[1],
                   !.Kitties = map_remove(@, kitty_id)]
            owner == owner_of(s1, kitty_id)
        IN  IF owner = None THEN Panic
            ELSE
            LET owned_count == owned_kitty_count(s1, owner[1])
                last_owned_index == u64_sub(owned_count, 1, build)
            IN  IF last_owned_index = None THEN Panic
                ELSE
                LET last_owned_id ==
                        map_get(s1.OwnedKittiesArray,
                                <<owner[1], last_owned_index[1]>>, DefaultHash)
                    owned_index == map_get(s1.OwnedKittiesIndex, kitty_id, 0)
                IN  Ok([s1 EXCEPT
                        !.OwnedKittiesArray =
                            map_remove(
                                map_insert(@, <<owner[1], owned_index>>,
                                           last_owned_id),
                                <<owner[1], last_owned_index[1]>>),
                        !.OwnedKittiesIndex =
                            map_remove(
                                map_insert(@, last_owned_id, owned_index),
                                kitty_id),
                        !.OwnedKittiesCount =
                            map_insert(@, owner[1], last_owned_index[1]),
                        !.KittyOwner = map_remove(@, kitty_id)])

\* for lifespan in expired_kitties { burn_token(lifespan.kitty_id) }
RECURSIVE burn_each(_, _, _)
burn_each(st, expired_kitties, build) ==
    IF expired_kitties = <<>> THEN Ok(st)
    ELSE LET one == burn_token(st, Head(expired_kitties).kitty_id, build)
         IN  IF one.tag = "Ok"
             THEN burn_each(one.val, Tail(expired_kitties), build)
             ELSE one

\* remove_expired_kitties(mtp): the storage afterwards and the lifespans
\* popped
remove_expired_kitties(st, mtp, build) ==
    LET stake == [kitty_id |-> DefaultHash, end_time |-> mtp]
        popped == pop_vec(World(st.LifespanArray), stake)
        burned == burn_each([st EXCEPT !.LifespanArray = popped.w.S],
                            popped.ret, build)
    IN  [out |-> burned, expired_kitties |-> popped.ret]

\* create_kitty(origin) signed by sender, at the median time past mtp
create_kitty(st, sender, bytes, mtp, build) ==
    LET nonce == st.Nonce
        hash == random_hash(nonce, bytes)
        lifetime == generate_lifetime(mtp, hash, build)
    IN  IF lifetime.tag # "Ok" THEN lifetime
        ELSE LET new_kitty == NewKitty(hash, hash, 0, lifetime.val)
                 minted == mint(st, sender, hash, new_kitty)
             IN  IF minted.tag # "Ok" THEN minted
                 ELSE Ok([minted.val EXCEPT !.Nonce = @ + 1])

\* set_price(origin, kitty_id, new_price)
set_price(st, sender, kitty_id, new_price, mtp) ==
    IF kitty_id \notin DOMAIN st.Kitties THEN Err
    ELSE LET owner == owner_of(st, kitty_id)
         IN  IF owner = None THEN Err
             ELSE IF owner[1] # sender THEN Err
             ELSE IF ~could_transfer(mtp, kitty(st, kitty_id)) THEN Err
             ELSE Ok([st EXCEPT
                      !.Kitties =
                          map_insert(@, kitty_id,
                              [kitty(st, kitty_id) EXCEPT !.price = new_price])])

\* transfer(origin, to, kitty_id)
transfer(st, sender, to, kitty_id, mtp) ==
    LET owner == owner_of(st, kitty_id)
    IN  IF owner = None THEN Err
        ELSE IF owner[1] # sender THEN Err
        ELSE IF ~could_transfer(mtp, kitty(st, kitty_id)) THEN Err
        ELSE transfer_from(st, sender, to, kitty_id)

\* buy_kitty(origin, kitty_id, max_price); paid is whether the transfer of
\* the price by the balances module succeeds
buy_kitty(st, sender, kitty_id, max_price, paid) ==
    IF kitty_id \notin DOMAIN st.Kitties THEN Err
    ELSE LET owner == owner_of(st, kitty_id)
         IN  IF owner = None THEN Err
             ELSE IF owner[1] = sender THEN Err
             ELSE
             LET kitty_price == kitty(st, kitty_id).price
             IN  IF kitty_price = 0 THEN Err
                 ELSE IF ~(kitty_price <= max_price) THEN Err
                 ELSE IF ~paid THEN Err
                 ELSE
                 LET moved == transfer_from(st, owner[1], sender, kitty_id)
                 IN  IF moved.tag # "Ok" THEN Panic
                     ELSE Ok([moved.val EXCEPT
                              !.Kitties =
                                  map_insert(@, kitty_id,
                                      [kitty(st, kitty_id)
                                          EXCEPT !.price = 0])])

\* final_dna.as_mut()[i] = *dna_2_element where random_hash[i] is even
mix(random, dna_1_element, dna_2_element) ==
    IF random % 2 = 0 THEN dna_2_element ELSE dna_1_element

max(a, b) == IF a >= b THEN a ELSE b

\* breed_kitty(origin, kitty_id_1, kitty_id_2)
breed_kitty(st, sender, kitty_id_1, kitty_id_2, bytes, mtp, build) ==
    IF kitty_id_1 \notin DOMAIN st.Kitties THEN Err
    ELSE IF kitty_id_2 \notin DOMAIN st.Kitties THEN Err
    ELSE
    LET kitty_1 == kitty(st, kitty_id_1)
        kitty_2 == kitty(st, kitty_id_2)
    IN  IF ~could_breed(mtp, kitty_1) THEN Err
        ELSE IF ~could_breed(mtp, kitty_2) THEN Err
        ELSE
        LET nonce == st.Nonce
            hash == random_hash(nonce, bytes)
            final_dna ==
                HashOf(mix(HashRest(hash), HashRest(kitty_1.dna),
                           HashRest(kitty_2.dna)),
                       mix(HashByte(hash, 0), HashByte(kitty_1.dna, 0),
                           HashByte(kitty_2.dna, 0)),
                       mix(HashByte(hash, 1), HashByte(kitty_1.dna, 1),
                           HashByte(kitty_2.dna, 1)),
                       mix(HashByte(hash, 2), HashByte(kitty_1.dna, 2),
                           HashByte(kitty_2.dna, 2)))
            lifetime == generate_lifetime(mtp, final_dna, build)
        IN  IF lifetime.tag # "Ok" THEN lifetime
            ELSE
            LET new_kitty ==
                    NewKitty(hash, final_dna,
                             max(kitty_1.gen, kitty_2.gen) + 1, lifetime.val)
                minted == mint(st, sender, hash, new_kitty)
            IN  IF minted.tag # "Ok" THEN minted
                ELSE Ok([minted.val EXCEPT !.Nonce = @ + 1])

----------------------------------------------------------------------------
(* The chain: signed calls of the kitties module within a block, and the   *)
(* end of the block, where the median-time-past module and the kitties     *)
(* module run their on_finalize.                                           *)

\* the leading bytes of the hashes drawn
DnaBytes == {<<0, 0, 0>>}

\* the hashes handed to the calls: those of the kitties minted so far,
\* stored or burned since
HashArgs ==
    {random_hash(nonce, bytes) :
        nonce \in 0..(KittyStorage.Nonce - 1), bytes \in DnaBytes}

\* the first kitties' times of maturity and of the end of life: those of a
\* kitty born at 0 with a dna of zero bytes
FirstMaturity == ONE_MINUTE * BASE_YOUNG_FACTOR
FirstEnd ==
    FirstMaturity + ONE_DAY * BASE_MATURITY_FACTOR
        + ONE_MINUTE * BASE_OLDNESS_FACTOR

\* the timestamps of the blocks
BlockTimes == {0, FirstMaturity, FirstEnd, FirstEnd + 1}

\* the effect of a call that returned result: an Err leaves the storage as
\* it is (every ensure! and ? of the module comes before its first write),
\* a panic discards the call
Called(result) ==
    /\ KittyStorage' =
           IF result.tag = "Ok" THEN result.val ELSE KittyStorage
    /\ panicked' = (panicked \/ result.tag = "Panic")
    /\ UNCHANGED <<heapVars, unit, mtpVars>>

CreateKitty ==
    /\ KittyStorage.Nonce < MaxKitties
    /\ \E sender \in Accounts, bytes \in DnaBytes, build \in Builds :
          Called(create_kitty(KittyStorage, sender, bytes, MedianTimePast,
                              build))

SetPrice ==
    \E sender \in Accounts, kitty_id \in HashArgs, new_price \in Prices :
        Called(set_price(KittyStorage, sender, kitty_id, new_price,
                         MedianTimePast))

\* the count of an account stays within what the model holds: a transfer
\* to an account whose count has reached the kitties minted is left out
Transfer ==
    \E sender \in Accounts, to \in Accounts, kitty_id \in HashArgs :
        /\ owned_kitty_count(KittyStorage, to) < MaxKitties
        /\ Called(transfer(KittyStorage, sender, to, kitty_id, MedianTimePast))

BuyKitty ==
    \E sender \in Accounts, kitty_id \in HashArgs, max_price \in Prices,
       paid \in BOOLEAN :
        /\ owned_kitty_count(KittyStorage, sender) < MaxKitties
        /\ Called(buy_kitty(KittyStorage, sender, kitty_id, max_price, paid))

BreedKitty ==
    /\ KittyStorage.Nonce < MaxKitties
    /\ \E sender \in Accounts, kitty_id_1 \in HashArgs,
          kitty_id_2 \in HashArgs, bytes \in DnaBytes, build \in Builds :
          Called(breed_kitty(KittyStorage, sender, kitty_id_1, kitty_id_2,
                             bytes, MedianTimePast, build))

\* the two on_finalize of a block, in either order of the two modules
Orders == {"mtp, kitties", "kitties, mtp"}

\* the end of one block whose timestamp is time, from b, the storage of
\* the two modules: mtp::on_finalize stores the new median,
\* kitties::on_finalize sweeps with the median it reads
block_end(b, time, order, build) ==
    CHOOSE e \in UNION
        {{IF swept.out.tag = "Ok"
          THEN [tag |-> "Ok", now |-> time,
                SampleTimestamps |-> put.SampleTimestamps,
                MedianTimePast |-> put.MedianTimePast,
                KittyStorage |-> swept.out.val]
          ELSE [b EXCEPT !.tag = "Panic"] :
             swept \in {remove_expired_kitties(
                            b.KittyStorage,
                            IF order = "mtp, kitties" THEN put.MedianTimePast
                            ELSE b.MedianTimePast,
                            build)}} :
         put \in {calculate_mtp(b.SampleTimestamps, time)}} : TRUE

\* the ends of n blocks in a row, all with the timestamp time
RECURSIVE block_ends(_, _, _, _, _)
block_ends(b, n, time, order, build) ==
    IF n = 0 \/ b.tag # "Ok" THEN b
    ELSE CHOOSE e \in {block_ends(after, n - 1, time, order, build) :
                          after \in {block_end(b, time, order, build)}} : TRUE

\* MAX_TIMESTAMP_SAMPLES blocks without a call of the kitties module, all
\* with the same timestamp time, later than the last one: after them every
\* sample is time, so is the median, and the last sweep was handed time in
\* either order of the modules.  A run that ends well with overflow checks
\* has subtracted within u64 and ends the same without them.
OnFinalize ==
    \E time \in BlockTimes, order \in Orders :
        /\ time > now
        /\ \E b \in {[tag |-> "Ok", now |-> now,
                       SampleTimestamps |-> SampleTimestamps,
                       MedianTimePast |-> MedianTimePast,
                       KittyStorage |-> KittyStorage]} :
             \E checked \in {block_ends(b, MAX_TIMESTAMP_SAMPLES, time,
                                         order, "checked")} :
                 IF checked.tag = "Ok"
                 THEN /\ now' = checked.now
                      /\ SampleTimestamps' = checked.SampleTimestamps
                      /\ MedianTimePast' = checked.MedianTimePast
                      /\ KittyStorage' = checked.KittyStorage
                      /\ UNCHANGED panicked
                 ELSE \E build \in Builds :
                      \E e \in {block_ends(b, MAX_TIMESTAMP_SAMPLES, time,
                                           order, build)} :
                          IF e.tag = "Ok"
                          THEN /\ now' = e.now
                               /\ SampleTimestamps' = e.SampleTimestamps
                               /\ MedianTimePast' = e.MedianTimePast
                               /\ KittyStorage' = e.KittyStorage
                               /\ UNCHANGED panicked
                          ELSE /\ panicked' = TRUE
                               /\ UNCHANGED <<mtpVars, KittyStorage>>
        /\ UNCHANGED <<heapVars, unit>>

KittyInit == HeapInit /\ C = "EndTimeCompare" /\ phase = "free"

KittyNext ==
    \/ CreateKitty
    \/ SetPrice
    \/ Transfer
    \/ BuyKitty
    \/ BreedKitty
    \/ OnFinalize

KittySpec == KittyInit /\ [][KittyNext]_vars

----------------------------------------------------------------------------
(* Notions the properties are stated with *)

\* no child is strictly closer to the root than its parent
IsValidHeap(store) ==
    \A i \in 0..(Len(store) - 1) :
        \A c \in {2 * i + 1, 2 * i + 2} :
            c < Len(store) => ~closer_than(At(store, c), At(store, i))

\* the elements of a sequence, with their multiplicities
SeqBag(seq) ==
    LET elems == {seq[i] : i \in DOMAIN seq}
    IN  [e \in elems |-> Cardinality({i \in DOMAIN seq : seq[i] = e})]

\* no later element is strictly closer than an earlier one
IsSortedBy(seq) ==
    \A i, j \in DOMAIN seq : i < j => ~closer_than(seq[j], seq[i])

\* x and y tie: neither is strictly closer than the other
Ties(x, y) == ~closer_than(x, y) /\ ~closer_than(y, x)

\* calling pop for as long as the store is non-empty and its root is closer
\* than the threshold: the store left and the results in order
RECURSIVE PopWhile(_, _)
PopWhile(s, threshold) ==
    IF Len(s) > 0 /\ closer_than(s[1], threshold)
    THEN LET r == pop(World(s))
             rest == PopWhile(r.w.S, threshold)
         IN  [S |-> rest.S, out |-> <<r.ret[1]>> \o rest.out]
    ELSE [S |-> s, out |-> <<>>]

\* calling push on each item in order: the store left
RECURSIVE PushEach(_, _)
PushEach(s, items) ==
    IF items = <<>> THEN s
    ELSE PushEach(push(World(s), Head(items)).w.S, Tail(items))

\* the k-th ancestor of index n in the complete binary tree rooted at 0
\* (n itself for k = 0), or -1 above the root
Anc(n, k) == ((n + 1) \div (2 ^ k)) - 1

\* item appended to pre and moved up past every ancestor it is strictly
\* closer than, nearest first, each passed ancestor moving one place down
SiftedUp(pre, item) ==
    LET appended == Append(pre, item)
        n == Len(pre)
        passes == {k \in 0..n :
                      \A i \in 1..k : /\ Anc(n, i) >= 0
                                      /\ closer_than(item, At(appended, Anc(n, i)))}
        j == CHOOSE k \in passes : \A o \in passes : o <= k
    IN  [p \in 1..(n + 1) |->
            IF p - 1 = Anc(n, j) THEN item
            ELSE IF \E i \in 0..(j - 1) : p - 1 = Anc(n, i)
                 THEN At(appended, Anc(n,
                          (CHOOSE i \in 0..(j - 1) : p - 1 = Anc(n, i)) + 1))
                 ELSE appended[p]]

\* index p is k or lies below k in the tree
IsUnder(p, k) == \E d \in 0..p : Anc(p, d) = k

\* the heap property among the nodes at and below index k
SubtreeValid(store, k) ==
    \A i \in 0..(Len(store) - 1) :
        IsUnder(i, k) =>
            \A c \in {2 * i + 1, 2 * i + 2} :
                c < Len(store) => ~closer_than(At(store, c), At(store, i))

\* the number of entries of s that satisfy v's bound: below v, or up to v
CountBelow(s, v) == Cardinality({i \in DOMAIN s : s[i] < v})
CountUpTo(s, v) == Cardinality({i \in DOMAIN s : s[i] <= v})

\* the median of an odd number of values: the one with at most half of the
\* others below it and at most half above it
Median(s) ==
    CHOOSE v \in {s[i] : i \in DOMAIN s} :
        /\ CountBelow(s, v) <= Len(s) \div 2
        /\ CountUpTo(s, v) > Len(s) \div 2

----------------------------------------------------------------------------
(* Properties *)

\* C1: every persisted sequence reachable from the empty one by push,
\* push_vec, pop and pop_vec satisfies the heap property: no child at 2i+1 or
\* 2i+2 is strictly closer than its parent at i.
C1_HeapProperty == IsValidHeap(S)

\* a pop that sifted down through a heap of at least three remaining
\* elements, not all of which tie
C1_Witness ==
    /\ last.op = "pop"
    /\ Len(S) >= 3
    /\ last.cmps >= 3
    /\ \E i \in DOMAIN S : closer_than(S[1], S[i])

\* C2: pushing N items onto an empty heap and popping N times yields the
\* items ordered by the comparator, closest first (a permutation of the
\* input in which no later element is strictly closer than an earlier one),
\* and the (N+1)-th pop returns nothing.
C2_HeapSort ==
    (phase = "pop" /\ Len(output) >= Len(input)) =>
        LET n == Len(input)
            popped == [k \in 1..n |-> output[k][1]]
        IN  /\ \A k \in 1..n : Len(output[k]) = 1
            /\ SeqBag(popped) = SeqBag(input)
            /\ IsSortedBy(popped)
            /\ S = <<>>
            /\ Len(output) = n + 1 => output[n + 1] = None

\* four items pushed out of order, popped, and one more pop made
C2_Witness ==
    /\ phase = "pop"
    /\ Len(input) >= 4
    /\ Len(output) = Len(input) + 1
    /\ ~IsSortedBy(input)
    /\ \E i, j \in DOMAIN input : i < j /\ closer_than(input[i], input[j])

\* C3: after pop_vec(threshold) the persisted sequence is empty or its root
\* is not closer than the threshold.
C3_ThresholdPost ==
    last.op = "pop_vec" =>
        (Len(S) = 0 \/ ~closer_than(S[1], last.arg))

\* a pop_vec that removed two elements and left some
C3_Witness ==
    /\ last.op = "pop_vec"
    /\ Len(last.ret) >= 2
    /\ Len(S) >= 1

\* C4: after pop_vec(threshold) no remaining element, at any index, is
\* closer than the threshold, every returned element is closer than the
\* threshold, and no returned element ties with the threshold.
C4_CompleteSweep ==
    last.op = "pop_vec" =>
        /\ \A i \in DOMAIN S : ~closer_than(S[i], last.arg)
        /\ \A j \in DOMAIN last.ret : closer_than(last.ret[j], last.arg)
        /\ \A j \in DOMAIN last.ret : ~Ties(last.ret[j], last.arg)

\* a pop_vec that removed some elements and left one that ties with the
\* threshold below the root
C4_Witness ==
    /\ last.op = "pop_vec"
    /\ Len(last.ret) >= 1
    /\ Len(S) >= 2
    /\ \E i \in 2..Len(S) : Ties(S[i], last.arg)

\* C5: pop_vec(threshold) returns, in order, what pop returns when called
\* for as long as the sequence is non-empty and its root is closer than the
\* threshold, and persists the sequence those pops leave.
C5_PopVecIsRepeatedPop ==
    last.op = "pop_vec" =>
        LET each == PopWhile(last.pre, last.arg)
        IN  last.ret = each.out /\ S = each.S

\* a pop_vec that removed two elements of different rank
C5_Witness ==
    /\ last.op = "pop_vec"
    /\ Len(last.ret) >= 2
    /\ closer_than(last.ret[1], last.ret[2])

\* C6: pop_vec(threshold) on a non-empty sequence whose root is not closer
\* than the threshold returns the empty list and leaves the sequence as it
\* was.
C6_NoOpThreshold ==
    (last.op = "pop_vec" /\ Len(last.pre) > 0
        /\ ~closer_than(last.pre[1], last.arg)) =>
        (last.ret = <<>> /\ S = last.pre)

\* a pop_vec on three or more elements whose root is not closer than the
\* threshold while the threshold is not closer than every element
C6_Witness ==
    /\ last.op = "pop_vec"
    /\ Len(last.pre) >= 3
    /\ ~closer_than(last.pre[1], last.arg)
    /\ \E i \in DOMAIN last.pre : ~closer_than(last.arg, last.pre[i])

\* C7: pop on a non-empty sequence returns the element that was at index 0,
\* shortens the sequence by one, and leaves the former elements less that
\* one occurrence.
C7_PopReturnsRoot ==
    (last.op = "pop" /\ Len(last.pre) > 0) =>
        /\ last.ret = Some(last.pre[1])
        /\ Len(S) = Len(last.pre) - 1
        /\ SeqBag(S) (+) SetToBag({last.pre[1]}) = SeqBag(last.pre)

\* a pop from four or more elements whose root differs from its tail
C7_Witness ==
    /\ last.op = "pop"
    /\ Len(last.pre) >= 4
    /\ last.pre[1] # last.pre[Len(last.pre)]

\* C8: pop on the empty sequence returns None and leaves it empty; pop_vec
\* on the empty sequence returns the empty list without a comparator call;
\* push_vec of the empty list leaves the sequence as it was.
C8_EmptyHandling ==
    /\ (last.op = "pop" /\ Len(last.pre) = 0) =>
           (last.ret = None /\ S = <<>>)
    /\ (last.op = "pop_vec" /\ Len(last.pre) = 0) =>
           (last.ret = <<>> /\ last.cmps = 0 /\ S = <<>>)
    /\ (last.op = "push_vec" /\ Len(last.arg) = 0) =>
           S = last.pre

\* a pop_vec on the empty sequence
C8_Witness ==
    /\ last.op = "pop_vec"
    /\ Len(last.pre) = 0

\* C9: push_vec(items) persists the sequence that push of each item in
\* order persists, and the in-memory sequence satisfies the heap property
\* after each insertion of its loop.
C9_PushVecIsRepeatedPush ==
    last.op = "push_vec" =>
        /\ S = PushEach(last.pre, last.arg)
        /\ \A k \in 0..Len(last.arg) :
               IsValidHeap(
                   push_items(Mem(last.pre), SubSeq(last.arg, 1, k)).store)

\* a push_vec of two items onto a non-empty heap, each of them sifted up
C9_Witness ==
    /\ last.op = "push_vec"
    /\ Len(last.arg) >= 2
    /\ Len(last.pre) >= 1
    /\ closer_than(last.arg[1], last.pre[1])
    /\ closer_than(last.arg[2], last.arg[1])

\* C10: every public operation makes exactly one get followed by exactly
\* one put, also when it adds or removes nothing.
C10_OneGetOnePut ==
    last.op # "none" => io = <<"get", "put">>

\* a push_vec of the empty list onto a non-empty heap
C10_Witness ==
    /\ last.op = "push_vec"
    /\ Len(last.arg) = 0
    /\ Len(last.pre) >= 1

\* C11: one public operation changes the persisted length by +1 (push),
\* by -1 (pop of a non-empty sequence, 0 of an empty one), by the number of
\* items given (push_vec) and by minus the number of elements returned
\* (pop_vec).
C11_LengthChange ==
    /\ last.op = "push" => Len(S) = Len(last.pre) + 1
    /\ last.op = "pop" =>
           Len(S) = IF Len(last.pre) = 0 THEN 0 ELSE Len(last.pre) - 1
    /\ last.op = "push_vec" => Len(S) = Len(last.pre) + Len(last.arg)
    /\ last.op = "pop_vec" => Len(S) = Len(last.pre) - Len(last.ret)

\* C11 as stated: one public operation changes the length by +1, -1 or 0.
C11_LengthStepOne ==
    last.op # "none" =>
        (Len(S) - Len(last.pre)) \in {0 - 1, 0, 1}

\* a push_vec of two items
C11_Witness ==
    /\ last.op = "push_vec"
    /\ Len(last.arg) = 2
    /\ Len(S) = Len(last.pre) + 2

\* C12: every routine ends under every comparator: each recursive call of
\* shift_up is made with a smaller index, each recursive call of shift_down
\* with a larger one, each recursive call of pop_by_stake on a shorter
\* sequence, pop_by_stake pops at most as many elements as the sequence
\* held, and every call reaches its end.
C12_Measure ==
    unit.fn # "none" =>
        /\ (unit.pc = "shift_up" /\ unit'.pc = "shift_up") =>
               unit'.idx < unit.idx
        /\ (unit.pc = "shift_down" /\ unit'.pc = "shift_down") =>
               unit'.idx > unit.idx
        /\ (unit.pc = "pop_by_stake" /\ unit'.pc # "done") =>
               Len(unit'.store) < Len(unit.store)

C12_PopsBounded ==
    unit.fn # "none" =>
        (unit.pops <= unit.n0 /\ Len(unit.store) + unit.pops = unit.n0)

C12_Ended == unit.fn # "none" /\ unit.pc = "done"

C12_Terminates ==
    /\ [][C12_Measure]_vars
    /\ []C12_PopsBounded
    /\ <>C12_Ended

\* a pop_by_stake that popped each of at least four elements and ended
C12_Witness ==
    /\ unit.fn = "pop_by_stake"
    /\ unit.pc = "done"
    /\ unit.n0 >= 4
    /\ unit.pops = unit.n0

\* C13: when left_idx(i) returns l, parent_idx(l) is i; when right_idx(i)
\* returns r, parent_idx(r) is i; parent_idx(0) is none; left_idx and
\* right_idx return none exactly when 2i+1, 2i+2 is not less than the
\* length, and that index otherwise.
C13_IndexSymmetry ==
    unit.fn = "idx" =>
        /\ unit.left # None => unit.parentOfLeft = Some(unit.i)
        /\ unit.right # None => unit.parentOfRight = Some(unit.i)
        /\ unit.i = 0 => unit.parent = None
        /\ unit.i > 0 => unit.parent # None
        /\ unit.left = (IF 2 * unit.i + 1 < unit.len
                        THEN Some(2 * unit.i + 1) ELSE None)
        /\ unit.right = (IF 2 * unit.i + 2 < unit.len
                         THEN Some(2 * unit.i + 2) ELSE None)

\* an index past 2 that has both children
C13_Witness ==
    /\ unit.fn = "idx"
    /\ unit.i >= 3
    /\ unit.left # None
    /\ unit.right # None

\* C14: with the max-heap comparator, pop on [50, 40, 20, 10, 30] returns
\* 50 and the sequence becomes [40, 30, 20, 10].
C14_PopScenario ==
    (last.op = "pop" /\ last.pre = <<50, 40, 20, 10, 30>>) =>
        (last.ret = Some(50) /\ S = <<40, 30, 20, 10>>)

\* C14 as stated: pop on [50, 40, 20, 10, 30] returns 50 and the sequence
\* becomes [40, 10, 30, 20].
C14_PopScenarioAsStated ==
    (last.op = "pop" /\ last.pre = <<50, 40, 20, 10, 30>>) =>
        (last.ret = Some(50) /\ S = <<40, 10, 30, 20>>)

\* the max-heap [50, 40, 20, 10, 30] was popped
C14_Witness ==
    /\ C = "TestCompare"
    /\ last.op = "pop"
    /\ last.pre = <<50, 40, 20, 10, 30>>

\* C15: with the max-heap comparator, pushing 10, 20, 30, 40, 50 one at a
\* time onto the empty heap persists [10], [20, 10], [30, 10, 20],
\* [40, 30, 20, 10] and [50, 40, 20, 10, 30]; every push appends the item
\* and moves it up past exactly the ancestors it is strictly closer than.
C15_PushScenario ==
    last.op = "push" =>
        /\ (last.pre = <<>> /\ last.arg = 10) => S = <<10>>
        /\ (last.pre = <<10>> /\ last.arg = 20) => S = <<20, 10>>
        /\ (last.pre = <<20, 10>> /\ last.arg = 30) => S = <<30, 10, 20>>
        /\ (last.pre = <<30, 10, 20>> /\ last.arg = 40) =>
               S = <<40, 30, 20, 10>>
        /\ (last.pre = <<40, 30, 20, 10>> /\ last.arg = 50) =>
               S = <<50, 40, 20, 10, 30>>
        /\ S = SiftedUp(last.pre, last.arg)

\* the fifth push of the scenario
C15_Witness ==
    /\ last.op = "push"
    /\ last.pre = <<40, 30, 20, 10>>
    /\ last.arg = 50
    /\ S = <<50, 40, 20, 10, 30>>

\* C16: with the max-heap comparator, pop_vec(35) on [50, 40, 20, 10, 30]
\* returns [50, 40] and leaves [30, 10, 20]; pop on that returns 30 and
\* leaves [20, 10]; pop_vec(5) on that returns [20, 10] and leaves the
\* sequence empty.
C16_PopVecScenario ==
    /\ (last.op = "pop_vec" /\ last.pre = <<50, 40, 20, 10, 30>>
           /\ last.arg = 35) =>
           (last.ret = <<50, 40>> /\ S = <<30, 10, 20>>)
    /\ (last.op = "pop" /\ last.pre = <<30, 10, 20>>) =>
           (last.ret = Some(30) /\ S = <<20, 10>>)
    /\ (last.op = "pop_vec" /\ last.pre = <<20, 10>> /\ last.arg = 5) =>
           (last.ret = <<20, 10>> /\ S = <<>>)

\* the last call of the scenario
C16_Witness ==
    /\ last.op = "pop_vec"
    /\ last.pre = <<20, 10>>
    /\ last.arg = 5
    /\ last.ret = <<20, 10>>

\* C17: shift_down at a node compares the node with the left child if it is
\* strictly closer than the right one or is the only child, with the right
\* child otherwise, so that no child is strictly closer than the chosen one;
\* it swaps node and chosen child only if the child is strictly closer than
\* the node, touching nothing under the other child or outside the node's
\* subtree, and stops otherwise; if both subtrees of the start index satisfy
\* the heap property before, the subtree of the start index satisfies it
\* afterwards, which for the root is the whole sequence.
C17_SiftDownStep ==
    unit.fn = "shift_down" =>
        LET st == unit.store
            r == unit.out.store
            n == Len(st)
            i == unit.idx
            l == 2 * i + 1
            kids == {c \in {l, l + 1} : c < n}
            chosen == IF l + 1 < n /\ ~closer_than(At(st, l), At(st, l + 1))
                      THEN l + 1 ELSE l
        IN  /\ Len(r) = n
            /\ SeqBag(r) = SeqBag(st)
            /\ \A p \in 0..(n - 1) : ~IsUnder(p, i) => At(r, p) = At(st, p)
            /\ kids = {} => (r = st /\ unit.out.cmps = 0)
            /\ kids # {} =>
                   /\ \A o \in kids : ~closer_than(At(st, o), At(st, chosen))
                   /\ IF closer_than(At(st, chosen), At(st, i))
                      THEN /\ At(r, i) = At(st, chosen)
                           /\ \A o \in kids \ {chosen} :
                                  \A p \in 0..(n - 1) :
                                      IsUnder(p, o) => At(r, p) = At(st, p)
                      ELSE /\ r = st
                           /\ unit.out.cmps = Cardinality(kids)
            /\ (SubtreeValid(st, l) /\ SubtreeValid(st, l + 1)) =>
                   /\ SubtreeValid(r, i)
                   /\ i = 0 => IsValidHeap(r)

\* a root out of place over two valid subtrees, sifted down two levels
C17_Witness ==
    /\ unit.fn = "shift_down"
    /\ unit.idx = 0
    /\ Len(unit.store) >= 5
    /\ SubtreeValid(unit.store, 1)
    /\ SubtreeValid(unit.store, 2)
    /\ ~IsValidHeap(unit.store)
    /\ IsValidHeap(unit.out.store)
    /\ unit.out.cmps >= 3
    /\ At(unit.out.store, 0) # At(unit.store, 0)
    /\ At(unit.out.store, 1) # At(unit.store, 1)

\* C18: push(item) adds one occurrence of item to the elements and changes
\* nothing else: the length grows by one, and every position off the path
\* from the new tail index to the root holds what it held before.
C18_PushFrame ==
    last.op = "push" =>
        LET n == Len(last.pre)
            appended == Append(last.pre, last.arg)
        IN  /\ Len(S) = n + 1
            /\ SeqBag(S) = SeqBag(last.pre) (+) SetToBag({last.arg})
            /\ \A p \in 0..n :
                   (~\E k \in 0..n : Anc(n, k) = p) =>
                       At(S, p) = At(appended, p)

\* a push of a value the heap already held, sifted up past its parent
C18_Witness ==
    /\ last.op = "push"
    /\ Len(last.pre) >= 4
    /\ \E i \in DOMAIN last.pre : last.pre[i] = last.arg
    /\ last.cmps >= 2
    /\ S[Len(S)] # last.arg
    /\ Cardinality({i \in DOMAIN S : S[i] = last.arg}) >= 2

\* C19: every calculate_mtp leaves exactly 11 entries in SampleTimestamps:
\* a call that finds a length other than 11, the first one included, fills
\* all 11 entries with the new time, and a call that finds 11 drops the
\* entry at index 0 and appends the new time, keeping the other ten in
\* their order.
C19_SampleWindow ==
    [][/\ Len(SampleTimestamps') = 11
       /\ IF Len(SampleTimestamps) = 11
          THEN /\ SampleTimestamps'[11] = now'
               /\ \A i \in 1..10 :
                      SampleTimestamps'[i] = SampleTimestamps[i + 1]
          ELSE \A i \in 1..11 : SampleTimestamps'[i] = now']_vars

\* a full window whose oldest entry differs from the one that came after it
\* and from the newest
C19_Witness ==
    /\ Len(SampleTimestamps) = 11
    /\ SampleTimestamps[1] # SampleTimestamps[2]
    /\ SampleTimestamps[1] # SampleTimestamps[11]
    /\ SampleTimestamps[11] = now

\* C20: after every calculate_mtp, MedianTimePast is the median (the 6th
\* smallest) of the 11 stored timestamps, whatever order they arrived in,
\* and SampleTimestamps is kept in arrival order, newest last, not sorted.
C20_Median ==
    Len(SampleTimestamps) # 0 =>
        /\ Len(SampleTimestamps) = 11
        /\ MedianTimePast = Median(SampleTimestamps)
        /\ CountBelow(SampleTimestamps, MedianTimePast) <= 5
        /\ CountUpTo(SampleTimestamps, MedianTimePast) >= 6
        /\ SampleTimestamps[11] = now

\* an unsorted window whose median is not its middle entry
C20_Witness ==
    /\ Len(SampleTimestamps) = 11
    /\ \E i \in 1..10 : SampleTimestamps[i] > SampleTimestamps[i + 1]
    /\ SampleTimestamps[6] # MedianTimePast
    /\ SampleTimestamps[11] # MedianTimePast
    /\ MedianTimePast = Median(SampleTimestamps)

\* C21: for a lifetime with birth <= maturity <= old <= end, life_stage is
\* Invalid exactly when mtp < birth_time or mtp >= end_time, Young exactly
\* when birth_time <= mtp < maturity_time, Maturity exactly when
\* maturity_time <= mtp < old_time and Oldness exactly when
\* old_time <= mtp < end_time; could_breed holds exactly in Maturity and
\* could_transfer exactly in Young or Maturity.
C21_LifeStages ==
    unit.fn = "life_stage" =>
        LET t == unit.mtp
            l == unit.lifetime
        IN  /\ unit.out \in {"Young", "Maturity", "Oldness", "Invalid"}
            /\ unit.out = "Invalid" <=>
                   (t < l.birth_time \/ t >= l.end_time)
            /\ unit.out = "Young" <=>
                   (l.birth_time <= t /\ t < l.maturity_time)
            /\ unit.out = "Maturity" <=>
                   (l.maturity_time <= t /\ t < l.old_time)
            /\ unit.out = "Oldness" <=> (l.old_time <= t /\ t < l.end_time)
            /\ unit.breed <=> (l.maturity_time <= t /\ t < l.old_time)
            /\ unit.transfer <=> (l.birth_time <= t /\ t < l.old_time)

\* the end of a life with four stages of positive length: Invalid from
\* end_time on
C21_Witness ==
    /\ unit.fn = "life_stage"
    /\ 0 < unit.lifetime.birth_time
    /\ unit.lifetime.birth_time < unit.lifetime.maturity_time
    /\ unit.lifetime.maturity_time < unit.lifetime.old_time
    /\ unit.lifetime.old_time < unit.lifetime.end_time
    /\ unit.mtp = unit.lifetime.end_time
    /\ unit.out = "Invalid"
    /\ ~unit.transfer

\* C22: for every birth time and dna, generate_lifetime returns
\* maturity_time = birth_time + (5 + dna[0]) * 60000,
\* old_time = maturity_time + (10 + dna[1]) * 86400000 and
\* end_time = old_time + (5 + dna[2]) * 60000, hence
\* birth_time < maturity_time < old_time < end_time, or it returns an error
\* when one of the u64 additions overflows.
C22_GenerateLifetime ==
    unit.fn = "generate_lifetime" =>
        \/ /\ unit.out = Err
           /\ generate_lifetime_widened(unit.mtp, unit.dna, unit.build) = Err
        \/ /\ unit.out.tag = "Ok"
           /\ LET l == unit.out.val
              IN  /\ l.birth_time = unit.mtp
                  /\ l.maturity_time - l.birth_time =
                         (5 + HashByte(unit.dna, 0)) * 60000
                  /\ (l.old_time - l.maturity_time) % 86400000 = 0
                  /\ (l.old_time - l.maturity_time) \div 86400000 =
                         10 + HashByte(unit.dna, 1)
                  /\ l.end_time - l.old_time =
                         (5 + HashByte(unit.dna, 2)) * 60000
                  /\ l.birth_time < l.maturity_time
                  /\ l.maturity_time < l.old_time
                  /\ l.old_time < l.end_time

\* the kitties an account owns according to KittyOwner
OwnedBy(st, account) ==
    {id \in DOMAIN st.KittyOwner : st.KittyOwner[id] = account}

\* the kitty ids held in LifespanArray
LifespanIds(st) ==
    {st.LifespanArray[i].kitty_id : i \in DOMAIN st.LifespanArray}

\* C23: after the blocks' on_finalize sweep remove_expired_kitties(mtp), no
\* kitty left in storage is past the end of its life: every stored kitty
\* has mtp < end_time.  (The blocks of an OnFinalize step are the steps
\* that change now, and the mtp of their last sweep is the median they
\* leave.)
C23_NoExpiredKittyLeft ==
    [][now' # now =>
           \A id \in DOMAIN KittyStorage'.Kitties :
               MedianTimePast' < KittyStorage'.Kitties[id].lifetime.end_time]_vars

\* C24: after any calls and sweeps, the kitty ids in LifespanArray are
\* exactly the ids in Kitties and in KittyOwner, each once, with the end
\* time of the kitty, and AllKittiesCount is the length of LifespanArray;
\* no call has panicked, so burn_token was only called for a kitty that
\* exists and has an owner.
C24_LifespanMatchesKitties ==
    LET st == KittyStorage
    IN  /\ LifespanIds(st) = DOMAIN st.Kitties
        /\ LifespanIds(st) = DOMAIN st.KittyOwner
        /\ Len(st.LifespanArray) = Cardinality(LifespanIds(st))
        /\ \A i \in DOMAIN st.LifespanArray :
               st.LifespanArray[i].end_time =
                   st.Kitties[st.LifespanArray[i].kitty_id].lifetime.end_time
        /\ st.AllKittiesCount = Len(st.LifespanArray)
        /\ ~panicked

\* two kitties were minted, the second bred at FirstMaturity; a later sweep
\* has burned one of them, an account is back to owning none, and the bred
\* kitty is still stored
C24_Witness ==
    /\ KittyStorage.Nonce = 2
    /\ KittyStorage.AllKittiesCount = 1
    /\ Len(KittyStorage.LifespanArray) = 1
    /\ MedianTimePast > FirstEnd
    /\ \E id \in DOMAIN KittyStorage.Kitties :
           /\ KittyStorage.Kitties[id].gen = 1
           /\ KittyStorage.Kitties[id].lifetime.birth_time = FirstMaturity
    /\ \E a \in Accounts : owned_kitty_count(KittyStorage, a) = 0
                           /\ a \in DOMAIN KittyStorage.OwnedKittiesCount

\* C25: after any calls and sweeps, for every account a, OwnedKittiesCount
\* of a is the number of kitties whose KittyOwner is a, and
\* OwnedKittiesArray at (a, 0), ..., (a, count - 1) lists exactly those.
C25_OwnedMatchesOwner ==
    \A a \in Accounts :
        LET st == KittyStorage
            count == owned_kitty_count(st, a)
            slots == {<<a, i>> : i \in 0..(count - 1)}
        IN  /\ count = Cardinality(OwnedBy(st, a))
            /\ slots \subseteq DOMAIN st.OwnedKittiesArray
            /\ {map_get(st.OwnedKittiesArray, k, DefaultHash) : k \in slots}
                   = OwnedBy(st, a)

\* C26: the owner of a kitty changes only at a median time past at which
\* could_transfer holds for it, that is in the Young or Maturity stage.
C26_OwnerChangesWhileTransferable ==
    [][\A id \in DOMAIN KittyStorage.KittyOwner :
           (/\ id \in DOMAIN KittyStorage'.KittyOwner
            /\ KittyStorage'.KittyOwner[id] # KittyStorage.KittyOwner[id])
               => could_transfer(MedianTimePast,
                                 kitty(KittyStorage, id))]_vars

====
